---- MODULE Spec2Model ----
(***************************************************************************)
(* Model of the derivation pipeline of Data_App_Stock_Analysis:            *)
(*   - get_stock_data        (watchlist_cardview_v1.py, watchlist_v1.py)   *)
(*   - fetch_financials      (Stock_Research_Analysis.py): statement       *)
(*     processing, format_number, KPI extraction                           *)
(*   - generate_financial_table (Stock_Research_Analysis.py)               *)
(*   - calculate_rsi         (proto.py)                                    *)
(* Each program is a separate Dash application, so each has its own        *)
(* specification over the shared variable list; the variables of the other *)
(* programs stay at their idle values.                                     *)
(*                                                                         *)
(* Python values are tagged records: Num(n) a number, Str(s) a string,     *)
(* None the absent value.  Numbers are fixed-point: the integer n stands   *)
(* for the real n / Unit, so fractions (needed by int() truncation and by  *)
(* the "%.0f" roundings) are representable.  Rendered text that a property *)
(* inspects character by character is a sequence of one-character strings. *)
(***************************************************************************)
EXTENDS Integers, Sequences, FiniteSets, TLC

VARIABLES
    pc,         \* position of the running function: "call", "loop", "format",
                \* "fetched", "data", "done", or "raised" when an exception
                \* has left it
    \* ---- get_stock_data (both watchlist variants) and the callbacks
    variant,    \* "cardview" (watchlist_cardview_v1.py), "table" (watchlist_v1.py),
                \* "proto" (proto.py) or "stock_rader" (stock_rader.py)
    tickers,    \* the argument: ordered list of ticker symbols
    pos,        \* number of tickers the for-loop has finished
    data,       \* the local list `data` of rows
    attempts,   \* history: what the data source did for each ticker, in order
    \* ---- statement processing inside fetch_financials
    raw,        \* one raw statement as delivered by the data source
    df,         \* the working frame `df` after the percentage-change loop
    display,    \* the processed statement stored back into financials[period][statement]
    \* ---- format_number
    value,      \* the argument of format_number
    formatted,  \* its return value
    \* ---- KPI extraction inside fetch_financials
    info_map,   \* stock.info as delivered by the data source
    kpi_df,     \* the KPI table
    \* ---- fetch_financials as a whole, and generate_financial_table
    stock,      \* what yf.Ticker(ticker) delivers: six statements and info
    result,     \* the returned triple (financials, stock_info, kpi_df)
    tables,     \* what generate_financial_table renders for each statement
    \* ---- calculate_rsi
    closes,     \* the close-price series `data`
    window,     \* the window argument
    rsi,        \* the returned series
    \* ---- the watchlist callbacks (update_cards, update_table,
    \*      update_table_and_dropdown)
    ticker_input,   \* the text of the ticker input box
    options,        \* the dropdown options built next to the table rows
    children        \* what update_cards returns to the cards container

vars == <<pc, variant, tickers, pos, data, attempts, raw, df, display, value,
          formatted, info_map, kpi_df, stock, result, tables, closes, window, rsi,
          ticker_input, options, children>>

wlVars == <<variant, tickers, pos, data, attempts>>
stVars == <<raw, df, display>>
fmVars == <<value, formatted>>
kpVars == <<info_map, kpi_df>>
ffVars == <<stock, result, tables>>
rsVars == <<closes, window, rsi>>
cbVars == <<ticker_input, options, children>>

(***************************************************************************)
(* Python values                                                           *)
(***************************************************************************)
Unit == 1000

Num(n) == [t |-> "num", n |-> n]
Str(s) == [t |-> "str", s |-> s]
None == [t |-> "none"]

IsNum(v) == v.t = "num"

Abs(n) == IF n < 0 THEN -n ELSE n

\* round-half-to-even of the rational a / b (b > 0), as numpy's round(0)
\* and the format spec ".0f" do.
RoundHalfEven(a, b) ==
    LET q == a \div b
        r == a % b
    IN  IF 2 * r < b THEN q
        ELSE IF 2 * r > b THEN q + 1
        ELSE IF q % 2 = 0 THEN q ELSE q + 1

\* all sequences over S of length 0..n
SeqsUpTo(S, n) == UNION {[1..k -> S] : k \in 0..n}

Reverse(s) == [k \in 1..Len(s) |-> s[Len(s) + 1 - k]]

(***************************************************************************)
(* Idle values of the variables a specification does not use               *)
(***************************************************************************)
IdleWl == /\ variant = "none" /\ tickers = <<>> /\ pos = 0
          /\ data = <<>> /\ attempts = <<>>
IdleSt == raw = None /\ df = None /\ display = None
IdleFm == value = None /\ formatted = None
IdleKp == info_map = None /\ kpi_df = None
IdleFf == stock = None /\ result = None /\ tables = None
IdleRs == closes = <<>> /\ window = 0 /\ rsi = <<>>
IdleCb == ticker_input = <<>> /\ options = <<>> /\ children = <<>>

(***************************************************************************)
(* Watchlist aggregator: get_stock_data                                    *)
(***************************************************************************)
MaxTickers == 3
Tickers == {"AAA", "BAD", "CCC"}
Reasons == {"No data found", "Connection timed out"}
Prices == {0, 5 * Unit}
\* info.get(key): a number, or None when the key is absent
InfoValues == {None} \cup {Num(p) : p \in Prices}
Infos == [currentPrice : InfoValues, previousClose : InfoValues]

\* dict.get(key): None when the key is absent
Get(map, key) == IF key \in DOMAIN map THEN map[key] ELSE None
\* info.get(key, "N/A")
GetOrNA(v) == IF v = None THEN Str("N/A") ELSE v
\* `x if x else "N/A"`: None and 0 are both falsy
TruthyOrNA(v) == IF v = None \/ v = Num(0) THEN Str("N/A") ELSE v

PriceChange_Falsy(info) ==
    IF TruthyOrNA(info.currentPrice) # Str("N/A") /\ TruthyOrNA(info.previousClose) # Str("N/A")
    THEN Num(info.currentPrice.n - info.previousClose.n)
    ELSE Str("N/A")

\* watchlist_cardview_v1.py lines 23-29
PriceChange(info) ==
    IF info.currentPrice # None /\ info.previousClose # None
    THEN Num(info.currentPrice.n - info.previousClose.n)
    ELSE Str("N/A")

\* The row appended in the try branch.  The fields derived from currentPrice
\* and previousClose are carried and, for the card view, the two fields that
\* create_stock_cards formats as numbers; the remaining fields are further
\* info.get(key, "N/A") copies.
NormalRow(v, ticker, info) ==
    IF v = "cardview"
    THEN [Ticker |-> ticker,
          CurrentPrice |-> TruthyOrNA(info.currentPrice),
          PriceChange |-> PriceChange(info),
          Close |-> TruthyOrNA(info.previousClose),
          VolumeTraded |-> GetOrNA(Get(info, "volume")),
          MarketCap |-> GetOrNA(Get(info, "marketCap"))]
    ELSE [Ticker |-> ticker,
          CurrentPrice |-> GetOrNA(info.currentPrice),
          YesterdaysClose |-> GetOrNA(info.previousClose),
          AnalystMean |-> Str("N/A")]

ErrorRow_Unmarked(v, ticker, reason) ==
    IF v = "cardview"
    THEN [Ticker |-> ticker,
          CurrentPrice |-> Str("N/A"),
          PriceChange |-> Str("N/A"),
          Close |-> Str("N/A")]
    ELSE [Ticker |-> ticker,
          CurrentPrice |-> Str("N/A"),
          YesterdaysClose |-> Str("N/A"),
          AnalystMean |-> Str("N/A")]

\* The row appended in the except branch.
ErrorRow(v, ticker, reason) ==
    IF v = "cardview"
    THEN [Ticker |-> ticker, Error |-> Str(reason)]
    ELSE [Ticker |-> ticker,
          CurrentPrice |-> Str("Error"),
          YesterdaysClose |-> Str("N/A"),
          AnalystMean |-> Str(reason)]

\* How a consumer tells the two variants of a row apart.
IsErrorRow(v, row) ==
    IF v = "cardview" THEN "Error" \in DOMAIN row
    ELSE row.CurrentPrice = Str("Error")
IsNormalRow(v, row) ==
    IF v = "cardview" THEN "CurrentPrice" \in DOMAIN row
    ELSE IsNum(row.CurrentPrice) \/ row.CurrentPrice = Str("N/A")
RowReason(v, row) == IF v = "cardview" THEN row.Error ELSE row.AnalystMean

InitWatchlist ==
    /\ pc = "loop"
    /\ variant \in {"cardview", "table"}
    /\ tickers \in SeqsUpTo(Tickers, MaxTickers)
    /\ pos = 0
    /\ data = <<>>
    /\ attempts = <<>>
    /\ IdleSt /\ IdleFm /\ IdleKp /\ IdleFf /\ IdleRs /\ IdleCb

\* One iteration of the for-loop whose try body completes.
FetchOk ==
    /\ pc = "loop" /\ pos < Len(tickers)
    /\ \E info \in Infos :
         /\ data' = Append(data, NormalRow(variant, tickers[pos + 1], info))
         /\ attempts' = Append(attempts,
                [ticker |-> tickers[pos + 1], outcome |-> "ok", reason |-> "",
                 info |-> info])
    /\ pos' = pos + 1
    /\ UNCHANGED <<pc, variant, tickers, stVars, fmVars, kpVars, ffVars, rsVars, cbVars>>

FetchRaises_Skip ==
    /\ pc = "loop" /\ pos < Len(tickers)
    /\ \E reason \in Reasons :
         attempts' = Append(attempts,
                [ticker |-> tickers[pos + 1], outcome |-> "raise", reason |-> reason])
    /\ pos' = pos + 1
    /\ UNCHANGED <<pc, data, variant, tickers, stVars, fmVars, kpVars, ffVars, rsVars, cbVars>>

\* One iteration of the for-loop whose try body raises: the except branch.
FetchRaises ==
    /\ pc = "loop" /\ pos < Len(tickers)
    /\ \E reason \in Reasons :
         /\ data' = Append(data, ErrorRow(variant, tickers[pos + 1], reason))
         /\ attempts' = Append(attempts,
                [ticker |-> tickers[pos + 1], outcome |-> "raise", reason |-> reason])
    /\ pos' = pos + 1
    /\ UNCHANGED <<pc, variant, tickers, stVars, fmVars, kpVars, ffVars, rsVars, cbVars>>

\* The loop is exhausted: return data.
ReturnData ==
    /\ pc = "loop" /\ pos = Len(tickers)
    /\ pc' = "done"
    /\ UNCHANGED <<wlVars, stVars, fmVars, kpVars, ffVars, rsVars, cbVars>>

NextWatchlist == FetchOk \/ FetchRaises \/ ReturnData

SpecWatchlist == InitWatchlist /\ [][NextWatchlist]_vars

\* C1: the returned list has exactly one row per input ticker, row i carries
\* the ticker at input position i (duplicates keep their own rows), whatever
\* subset of the fetches failed.
C1_OneRowPerTickerInOrder ==
    /\ Len(data) = pos
    /\ pc = "done" =>
         /\ Len(data) = Len(tickers)
         /\ \A k \in 1..Len(tickers) : data[k].Ticker = tickers[k]

\* a finished call with a duplicated ticker and a mix of failed and
\* successful fetches
C1_Witness ==
    /\ pc = "done" /\ Len(tickers) = MaxTickers
    /\ tickers[1] = tickers[3]
    /\ attempts[1].outcome = "raise" /\ attempts[3].outcome = "ok"

\* C2: a ticker whose fetch raises gets an error-variant row carrying the
\* ticker and the failure reason, every other ticker gets a normal-variant
\* row, and no row is both variants.
C2_ErrorIsolatedPerTicker ==
    \A k \in 1..Len(data) :
        /\ data[k].Ticker = attempts[k].ticker
        /\ ~(IsErrorRow(variant, data[k]) /\ IsNormalRow(variant, data[k]))
        /\ attempts[k].outcome = "raise" =>
             /\ IsErrorRow(variant, data[k])
             /\ RowReason(variant, data[k]) = Str(attempts[k].reason)
        /\ attempts[k].outcome = "ok" => IsNormalRow(variant, data[k])

\* the spec's example: [AAA, BAD, CCC] with only BAD failing
C2_Witness ==
    /\ pc = "done" /\ tickers = <<"AAA", "BAD", "CCC">>
    /\ attempts[1].outcome = "ok" /\ attempts[2].outcome = "raise"
    /\ attempts[3].outcome = "ok"
    /\ IsErrorRow(variant, data[2]) /\ data[2].Ticker = "BAD"
    /\ IsNormalRow(variant, data[1]) /\ IsNormalRow(variant, data[3])

(***************************************************************************)
(* Statement processing: the loop body of fetch_financials, lines 31-75    *)
(***************************************************************************)
MaxRows == 2
MaxPeriods == 3
MaxCells == 6
ItemNames == <<"Total Revenue", "Net Income", "EBITDA", "Free Cash Flow">>
\* a raw cell: a number, or None for a missing (NaN) cell
CellValues == {-100 * Unit, 0, 50 * Unit, 100 * Unit, 150 * Unit}
Cells == {None} \cup {Num(c) : c \in CellValues}

\* -0.0: equal to 0 in every comparison, but printed with a minus sign
NegZero == [t |-> "num", n |-> 0, neg |-> TRUE]

\* Column labels of a frame.  A raw statement has the line items as its
\* index and one column per period end date, newest first: period 1 is the
\* newest.
IndexCol == [kind |-> "index", p |-> 0]
PeriodCol(k) == [kind |-> "period", p |-> k]
PctCol(k) == [kind |-> "pct", p |-> k]       \* f"{current_col}-%"

\* pd.DataFrame(): no rows, no columns
EmptyFrame == [t |-> "frame", columns |-> <<>>, rows |-> <<>>]

\* A raw statement with m line items and n periods: the line items are its
\* index, cells[j][k] is the cell of item j in period k.
RawFrame(m, n, cells) ==
    [t |-> "frame",
     index |-> [j \in 1..m |-> ItemNames[j]],
     columns |-> [k \in 1..n |-> PeriodCol(k)],
     rows |-> cells]

Shapes == {s \in (0..MaxRows) \X (0..MaxPeriods) : s[1] * s[2] <= MaxCells}

\* line 32: pd.DataFrame(raw).reset_index() -- the index becomes the first
\* column, named "index"
ResetIndex(f) ==
    [t |-> "frame",
     columns |-> <<IndexCol>> \o f.columns,
     rows |-> [j \in 1..Len(f.rows) |-> <<Str(f.index[j])>> \o f.rows[j]]]

\* line 35: df.fillna(0, inplace=True) -- a missing cell becomes 0
FillNa(f) ==
    [f EXCEPT !.rows = [j \in 1..Len(f.rows) |->
        [c \in 1..Len(f.rows[j]) |->
            IF f.rows[j][c] = None THEN Num(0) ELSE f.rows[j][c]]]]

\* line 38: numeric_columns = df.columns[1:], as positions in df.columns
NumericColumns(f) == [k \in 1..(Len(f.columns) - 1) |-> k + 1]

PctChange_NoAbs(cur, prev) ==
    IF prev = 0
    THEN IF cur < 0 THEN NegZero ELSE Num(0)
    ELSE LET r == IF prev > 0 THEN RoundHalfEven((cur - prev) * 100, prev)
                  ELSE RoundHalfEven((prev - cur) * 100, -prev)
         IN  Num(r * Unit)

\* lines 47-49, for one row:
\*   ((cur - prev) / abs(prev).replace(0, inf) * 100).fillna(0).round(0)
\* A zero previous value is replaced by infinity, so the quotient is a zero
\* carrying the sign of cur.  The result is a float holding a whole number.
PctChange(cur, prev) ==
    IF prev = 0
    THEN IF cur < 0 THEN NegZero ELSE Num(0)
    ELSE LET r == RoundHalfEven((cur - prev) * 100, Abs(prev))
         IN  IF r = 0 /\ cur < prev THEN NegZero ELSE Num(r * Unit)

\* line 43: for i in range(1, len(numeric_columns) - 1), with
\* current = numeric_columns[i], previous = numeric_columns[i + 1].  Python
\* positions count from 0, so the pairs are (k, k + 1) for k in 2..n-1 in
\* the 1-based numbering of the periods.
ChangePairs(n) == 2..(n - 1)

RECURSIVE AddPctColumns(_, _, _)
\* lines 43-51: append one column f"{current_col}-%" per pair, in loop
\* order; f is the frame so far, n the number of numeric columns, k the
\* next candidate pair
AddPctColumns(f, n, k) ==
    IF k >= n THEN f
    ELSE IF k \notin ChangePairs(n) THEN AddPctColumns(f, n, k + 1)
    ELSE AddPctColumns(
            [f EXCEPT
                !.columns = Append(@, PctCol(f.columns[k + 1].p)),
                !.rows = [j \in 1..Len(f.rows) |->
                    Append(f.rows[j],
                           PctChange(f.rows[j][k + 1].n, f.rows[j][k + 2].n))]],
            n, k + 1)

\* lines 32-51: the frame after the percentage-change loop
WithChanges(r) ==
    LET f == FillNa(ResetIndex(r))
    IN  AddPctColumns(f, Len(NumericColumns(f)), 1)

DigitChars == <<"0", "1", "2", "3", "4", "5", "6", "7", "8", "9">>

RECURSIVE Digits(_)
\* str(n) for an integer n >= 0
Digits(n) ==
    IF n < 10 THEN <<DigitChars[n + 1]>>
    ELSE Digits(n \div 10) \o <<DigitChars[(n % 10) + 1]>>

RECURSIVE Grouped(_)
\* f"{n:,}" for an integer n >= 0: a comma before every group of three digits
Grouped(n) ==
    IF n < 1000 THEN Digits(n)
    ELSE Grouped(n \div 1000) \o <<",">>
            \o <<DigitChars[((n \div 100) % 10) + 1],
                 DigitChars[((n \div 10) % 10) + 1],
                 DigitChars[(n % 10) + 1]>>

PyInt_Floor(n) == n \div Unit

\* int(x) of a float x = n / Unit: truncation toward zero (line 56)
PyInt(n) == IF n >= 0 THEN n \div Unit ELSE -((-n) \div Unit)

\* lines 54-60
format_number(v) ==
    IF IsNum(v)
    THEN LET i == PyInt(v.n)
         IN  IF i < 0 THEN Str(<<"(">> \o Grouped(-i) \o <<")">>)
             ELSE Str(Grouped(i))
    ELSE v

Span_NoPlus(x) ==
    IF IsNum(x)
    THEN [t |-> "span",
          text |-> (IF x.n < 0 \/ x = NegZero THEN <<"-">> ELSE <<>>)
                     \o Digits(RoundHalfEven(Abs(x.n), Unit)) \o <<" ", "%">>,
          color |-> IF x.n > 0 THEN "green" ELSE IF x.n < 0 THEN "red" ELSE "white"]
    ELSE Str(<<"0", " ", "%">>)

\* lines 67-70: the cell of a percentage column becomes
\*   html.Span(f"{x:+.0f} %", style={"color": ...})
\* for a number x, and the string "0 %" otherwise
Span(x) ==
    IF IsNum(x)
    THEN [t |-> "span",
          text |-> <<IF x.n < 0 \/ x = NegZero THEN "-" ELSE "+">>
                     \o Digits(RoundHalfEven(Abs(x.n), Unit)) \o <<" ", "%">>,
          color |-> IF x.n > 0 THEN "green" ELSE IF x.n < 0 THEN "red" ELSE "white"]
    ELSE Str(<<"0", " ", "%">>)

FormatAndReverse_NoReverse(f) ==
    [f EXCEPT !.rows =
        [j \in 1..Len(f.rows) |->
            [c \in 1..Len(f.columns) |->
                IF f.columns[c].kind = "period" THEN format_number(f.rows[j][c])
                ELSE IF f.columns[c].kind = "pct" THEN Span(f.rows[j][c])
                ELSE f.rows[j][c]]]]

\* lines 62-63, 66-71 and 73, on the frame the change loop left:
\* format_number on the period columns, Span on the columns whose name
\* contains "%", then df.iloc[::-1]
FormatAndReverse(f) ==
    [f EXCEPT !.rows = Reverse(
        [j \in 1..Len(f.rows) |->
            [c \in 1..Len(f.columns) |->
                IF f.columns[c].kind = "period" THEN format_number(f.rows[j][c])
                ELSE IF f.columns[c].kind = "pct" THEN Span(f.rows[j][c])
                ELSE f.rows[j][c]]])]

\* lines 31-75: what is stored into financials[period][statement]
ProcessStatement(r) ==
    IF r # None THEN FormatAndReverse(WithChanges(r)) ELSE EmptyFrame

InitStatement ==
    /\ pc = "call"
    /\ \/ raw = None
       \/ \E s \in Shapes : \E cells \in [1..s[1] -> [1..s[2] -> Cells]] :
            raw = RawFrame(s[1], s[2], cells)
    /\ df = None
    /\ display = None
    /\ IdleWl /\ IdleFm /\ IdleKp /\ IdleFf /\ IdleRs /\ IdleCb

\* lines 31-51: the frame is built and the change columns are added
ComputeChanges ==
    /\ pc = "call" /\ raw # None
    /\ df' = WithChanges(raw)
    /\ pc' = "format"
    /\ UNCHANGED <<raw, display, wlVars, fmVars, kpVars, ffVars, rsVars, cbVars>>

\* lines 53-73: the cells are formatted, the rows reversed, the result stored
FormatAndStore ==
    /\ pc = "format"
    /\ display' = FormatAndReverse(df)
    /\ pc' = "done"
    /\ UNCHANGED <<raw, df, wlVars, fmVars, kpVars, ffVars, rsVars, cbVars>>

\* lines 74-75: a statement that is None becomes an empty DataFrame
StoreEmpty ==
    /\ pc = "call" /\ raw = None
    /\ display' = EmptyFrame
    /\ pc' = "done"
    /\ UNCHANGED <<raw, df, wlVars, fmVars, kpVars, ffVars, rsVars, cbVars>>

NextStatement == ComputeChanges \/ FormatAndStore \/ StoreEmpty

SpecStatement == InitStatement /\ [][NextStatement]_vars

\* the columns of a frame other than the index column
ValueColumns(f) == {c \in 1..Len(f.columns) : f.columns[c].kind # "index"}
PctColumns(f) == {c \in 1..Len(f.columns) : f.columns[c].kind = "pct"}
NumPeriods(r) == Len(r.columns)

\* C3: for n >= 2 periods there is one change column per adjacent pair of
\* periods, the newest pair included, so 2n-1 value columns; for n < 2 there
\* is no change column.
C3_ChangeColumnPerAdjacentPair ==
    (pc = "done" /\ raw # None) =>
        LET n == NumPeriods(raw)
        IN  /\ n >= 2 =>
                /\ {display.columns[c].p : c \in PctColumns(display)} = 1..(n - 1)
                /\ Cardinality(PctColumns(display)) = n - 1
                /\ Cardinality(ValueColumns(display)) = 2 * n - 1
            /\ n < 2 => PctColumns(display) = {}

\* C4: every cell of a change column is (current - previous) / |previous| * 100
\* rounded to a whole percent when previous # 0, and is 0 when previous = 0.
C4_PercentageChange ==
    pc = "format" =>
        \A j \in 1..Len(df.rows) : \A c \in PctColumns(df) :
            LET k == df.columns[c].p
                cur == df.rows[j][k + 1].n
                prev == df.rows[j][k + 2].n
                x == df.rows[j][c]
            IN  /\ IsNum(x)
                /\ x.n % Unit = 0
                /\ prev = 0 => x.n = 0
                /\ prev # 0 =>
                     \* x is a whole number nearest to the exact quotient
                     2 * Abs((x.n \div Unit) * Abs(prev) - (cur - prev) * 100) <= Abs(prev)
                /\ (cur = 150 * Unit /\ prev = 100 * Unit) => x.n = 50 * Unit
                /\ (cur = 50 * Unit /\ prev = 100 * Unit) => x.n = -50 * Unit

\* a change column holding 150 against 100 in one row and, in the other
\* row, a non-zero value against a previous value of 0
C4_Witness ==
    /\ pc = "format"
    /\ \E j \in 1..Len(df.rows) : \E c \in PctColumns(df) :
         LET k == df.columns[c].p
         IN  /\ df.rows[j][k + 1] = Num(150 * Unit)
             /\ df.rows[j][k + 2] = Num(100 * Unit)
             /\ df.rows[j][c] = Num(50 * Unit)
    /\ \E j \in 1..Len(df.rows) : \E c \in PctColumns(df) :
         LET k == df.columns[c].p
         IN  /\ df.rows[j][k + 2].n = 0 /\ df.rows[j][k + 1].n # 0
             /\ df.rows[j][c].n = 0

(***************************************************************************)
(* format_number on its own                                                *)
(***************************************************************************)
\* whole parts and fractional parts (in 1/Unit) of the numeric arguments
WholeParts == {0, 1, 9, 12, 999, 1000, 1001, 1234, 12345, 999999, 1000000, 1234567}
Fractions == {0, 1, Unit \div 2, Unit - 1}
\* int, float arguments of either sign, and arguments that are no numbers
FormatArguments ==
    {Num(sg * (w * Unit + f)) : sg \in {-1, 1}, w \in WholeParts, f \in Fractions}
        \cup {None, Str(<<"N", "/", "A">>), Str(<<>>), Str(<<"-", "1">>)}

InitFormat ==
    /\ pc = "call"
    /\ value \in FormatArguments
    /\ formatted = None
    /\ IdleWl /\ IdleSt /\ IdleKp /\ IdleFf /\ IdleRs /\ IdleCb

\* df[col].apply(format_number), for one cell
FormatNumber ==
    /\ pc = "call"
    /\ formatted' = format_number(value)
    /\ pc' = "done"
    /\ UNCHANGED <<value, wlVars, stVars, kpVars, ffVars, rsVars, cbVars>>

\* the next cell of the column is handed to format_number
NextCell ==
    /\ pc = "done"
    /\ value' \in FormatArguments
    /\ formatted' = None
    /\ pc' = "call"
    /\ UNCHANGED <<wlVars, stVars, kpVars, ffVars, rsVars, cbVars>>

NextFormat == FormatNumber \/ NextCell

SpecFormat == InitFormat /\ [][NextFormat]_vars

RECURSIVE ParseGrouped(_)
\* the integer a comma-grouped digit string denotes, -1 when the string is
\* not digits in groups of three separated by commas
ParseGrouped(s) ==
    LET n == Len(s)
        IsDigit(ch) == \E d \in 1..10 : DigitChars[d] = ch
        DigitOf(ch) == (CHOOSE d \in 1..10 : DigitChars[d] = ch) - 1
        \* position counted from the right end, 1 = last character
        WellFormed ==
            /\ n >= 1
            /\ \A i \in 1..n :
                 IF (n + 1 - i) % 4 = 0 THEN s[i] = "," ELSE IsDigit(s[i])
            /\ s[1] # ","
            /\ (n > 1 => s[1] # "0")
        NoCommas == SelectSeq(s, LAMBDA ch : ch # ",")
        RECURSIVE Val(_)
        Val(t) == IF Len(t) = 0 THEN 0
                  ELSE 10 * Val(SubSeq(t, 1, Len(t) - 1)) + DigitOf(t[Len(t)])
    IN  IF WellFormed THEN Val(NoCommas) ELSE -1

\* the shape of the result for every argument
C5_Shape ==
    pc = "done" =>
        IF IsNum(value)
        THEN /\ formatted.t = "str"
             /\ Len(formatted.s) >= 1
             /\ \A i \in 1..Len(formatted.s) : formatted.s[i] # "-"
             /\ LET s == formatted.s
                    wrapped == Head(s) = "(" /\ s[Len(s)] = ")"
                    m == IF wrapped THEN ParseGrouped(SubSeq(s, 2, Len(s) - 1))
                         ELSE ParseGrouped(s)
                IN  \* the text is a comma-grouped magnitude m ...
                    /\ m >= 0
                    \* ... which is |value| with its fractional part discarded
                    /\ m * Unit <= Abs(value.n)
                    /\ Abs(value.n) < (m + 1) * Unit
                    \* ... in parentheses exactly when the truncated value < 0
                    /\ wrapped <=> (value.n < 0 /\ m > 0)
        ELSE formatted = value

\* the three examples of the specification
C5_Examples ==
    pc = "done" =>
        /\ value = Num(-1234 * Unit) => formatted = Str(<<"(", "1", ",", "2", "3", "4", ")">>)
        /\ value = Num(1234 * Unit) => formatted = Str(<<"1", ",", "2", "3", "4">>)
        /\ value = Num(0) => formatted = Str(<<"0">>)

\* C5: a numeric value is truncated toward zero; a truncated value >= 0 is
\* rendered comma-grouped, a negative one as its comma-grouped magnitude in
\* parentheses with no minus sign; a non-numeric value is returned unchanged.
C5_FormatNumber == C5_Shape /\ C5_Examples

\* a negative float with three digit groups, truncated and parenthesised
C5_Witness ==
    /\ pc = "done"
    /\ value = Num(-(1234567 * Unit + Unit - 1))
    /\ formatted = Str(<<"(", "1", ",", "2", "3", "4", ",", "5", "6", "7", ")">>)

(***************************************************************************)
(* KPI extraction: fetch_financials lines 78-98                            *)
(***************************************************************************)
\* the keys of stock.info the KPI table reads, in the order of its rows
KpiKeys == <<"returnOnEquity", "debtToEquity", "currentRatio", "grossMargins",
             "operatingMargins", "profitMargins", "ebitdaMargins", "quickRatio",
             "payoutRatio", "beta">>
KpiMetrics == <<"Return on Equity", "Debt to Equity", "Current Ratio",
                "Gross Margins", "Operating Margins", "Profit Margins",
                "EBITDA Margins", "Quick Ratio", "Payout Ratio", "Beta">>
KpiKeySet == {KpiKeys[i] : i \in 1..Len(KpiKeys)}
\* the rows formatted as f"{v * 100:.0f} %"
RatioKeys == {"returnOnEquity", "grossMargins", "operatingMargins",
              "profitMargins", "ebitdaMargins", "payoutRatio"}
\* the rows formatted as f"{int(v)}"
IntKeys == {"debtToEquity", "currentRatio", "quickRatio"}
\* "beta" is formatted as f"{v:.0f}"

NA == <<"N", "/", "A">>
Raised == [t |-> "raise"]

\* f"{x:.0f}" for a float x = n / Unit
FixedZero(n) ==
    (IF n < 0 THEN <<"-">> ELSE <<>>) \o Digits(RoundHalfEven(Abs(n), Unit))

\* f"{i}" for an integer i
IntText(i) == (IF i < 0 THEN <<"-">> ELSE <<>>) \o Digits(Abs(i))

KpiValue_NoFallback(key, v) ==
    IF ~IsNum(v) THEN Raised
    ELSE IF key \in RatioKeys THEN Str(FixedZero(v.n * 100) \o <<" ", "%">>)
    ELSE IF key \in IntKeys THEN Str(IntText(PyInt(v.n)))
    ELSE Str(FixedZero(v.n))

\* one entry of the "Value" list, lines 86-95; v is stock_info.get(key).
\* A value that is no number makes the arithmetic or the format raise.
KpiValue(key, v) ==
    IF v = None THEN Str(NA)
    ELSE IF ~IsNum(v) THEN Raised
    ELSE IF key \in RatioKeys THEN Str(FixedZero(v.n * 100) \o <<" ", "%">>)
    ELSE IF key \in IntKeys THEN Str(IntText(PyInt(v.n)))
    ELSE Str(FixedZero(v.n))

\* line 78: stock_info = stock.info or {}
InfoOrEmpty(info) == IF info = None \/ DOMAIN info = {} THEN <<>> ELSE info

\* lines 81-98: kpi_df, or Raised when building a value raises
ExtractKpis(stock_info) ==
    LET values == [i \in 1..Len(KpiKeys) |->
                      KpiValue(KpiKeys[i], Get(stock_info, KpiKeys[i]))]
    IN  IF \E i \in 1..Len(KpiKeys) : values[i] = Raised THEN Raised
        ELSE [t |-> "frame",
              columns |-> <<"Metric", "Value">>,
              rows |-> [i \in 1..Len(KpiKeys) |-> <<Str(KpiMetrics[i]), values[i]>>]]

\* values of the ratio-type keys: 0, 0.25, 0.256, -0.125 (a tie at -12.5 %), 2
RatioSamples == {0, Unit \div 4, (256 * Unit) \div 1000, -(Unit \div 8), 2 * Unit}
\* values of the scalar keys: 0, 1.7, 2.5, -1.5, 150.5
ScalarSamples == {0, (17 * Unit) \div 10, (25 * Unit) \div 10,
                  -((15 * Unit) \div 10), 150 * Unit + Unit \div 2}

\* an attribute map holding the keys in `present`
InfoMap(present, rv, sv) ==
    [k \in present |-> IF k \in RatioKeys THEN Num(rv) ELSE Num(sv)]

InitKpi ==
    /\ pc = "call"
    /\ \/ info_map = None
       \/ \E present \in SUBSET KpiKeySet :
            \E rv \in RatioSamples : \E sv \in ScalarSamples :
                info_map = InfoMap(present, rv, sv)
    /\ kpi_df = None
    /\ IdleWl /\ IdleSt /\ IdleFm /\ IdleFf /\ IdleRs /\ IdleCb

\* lines 78-98
BuildKpiTable ==
    /\ pc = "call"
    /\ kpi_df' = ExtractKpis(InfoOrEmpty(info_map))
    /\ pc' = "done"
    /\ UNCHANGED <<info_map, wlVars, stVars, fmVars, ffVars, rsVars, cbVars>>

NextKpi == BuildKpiTable

SpecKpi == InitKpi /\ [][NextKpi]_vars

KpiRowOf(key) == CHOOSE i \in 1..Len(KpiKeys) : KpiKeys[i] = key

\* C8: for a present numeric value, a ratio-type KPI is value * 100 as a
\* whole-percent string, and each of Debt to Equity, Current Ratio, Quick
\* Ratio and Beta is the value truncated to an integer.
C8_RatioPercentScalarTruncated ==
    (pc = "done" /\ info_map # None) =>
        \A key \in DOMAIN info_map :
            LET v == info_map[key].n
                text == kpi_df.rows[KpiRowOf(key)][2].s
            IN  IF key \in RatioKeys
                THEN text = FixedZero(v * 100) \o <<" ", "%">>
                ELSE \* the integer part of v, the fraction discarded
                     text = IntText(IF v >= 0 THEN v \div Unit ELSE -((-v) \div Unit))

(***************************************************************************)
(* Indicator engine: calculate_rsi (proto.py lines 170-176)                *)
(***************************************************************************)
MaxLen == 4
MaxPrice == 3
MaxWindow == 3

\* Floats of the RSI computation: NaN (the undefined value), +infinity, or
\* the exact quotient num / den with den > 0.
NaN == [t |-> "nan"]
Inf == [t |-> "inf"]
Fin(num, den) == [t |-> "fin", num |-> num, den |-> den]

\* line 171, data.diff(): NaN at the first position
Diff(series) ==
    [i \in 1..Len(series) |->
        IF i = 1 THEN NaN ELSE Fin(series[i] - series[i - 1], 1)]

\* delta.where(delta > 0, 0): NaN > 0 is False, so NaN becomes 0 too
Gains(delta) ==
    [i \in 1..Len(delta) |->
        IF delta[i] # NaN /\ delta[i].num > 0 THEN delta[i].num ELSE 0]

Losses_Signed(delta) ==
    [i \in 1..Len(delta) |->
        IF delta[i] # NaN /\ delta[i].num < 0 THEN delta[i].num ELSE 0]

\* -delta.where(delta < 0, 0)
Losses(delta) ==
    [i \in 1..Len(delta) |->
        IF delta[i] # NaN /\ delta[i].num < 0 THEN -delta[i].num ELSE 0]

RECURSIVE SumRange(_, _, _)
SumRange(xs, lo, hi) == IF lo > hi THEN 0 ELSE xs[lo] + SumRange(xs, lo + 1, hi)

RollingMean_Partial(xs, w) ==
    [i \in 1..Len(xs) |->
        IF i < w THEN Fin(SumRange(xs, 1, i), i)
        ELSE Fin(SumRange(xs, i - w + 1, i), w)]

\* .rolling(window=w).mean(): min_periods is w, so a position with fewer than
\* w samples behind it is NaN
RollingMean(xs, w) ==
    [i \in 1..Len(xs) |->
        IF i < w THEN NaN ELSE Fin(SumRange(xs, i - w + 1, i), w)]

FloatDiv_ZeroIsNaN(a, b) ==
    IF a = NaN \/ b = NaN THEN NaN
    ELSE IF b.num = 0 THEN NaN
    ELSE Fin(a.num * b.den, a.den * b.num)

\* line 174, gain / loss on non-negative floats: x / 0 is +infinity for
\* x > 0 and NaN for x = 0; NaN propagates
FloatDiv(a, b) ==
    IF a = NaN \/ b = NaN THEN NaN
    ELSE IF b.num = 0 THEN (IF a.num = 0 THEN NaN ELSE Inf)
    ELSE Fin(a.num * b.den, a.den * b.num)

\* line 175: 100 - (100 / (1 + rs)); 100 / infinity is 0
RsiOf(rs) ==
    IF rs = NaN THEN NaN
    ELSE IF rs = Inf THEN Fin(100, 1)
    ELSE Fin(100 * rs.num, rs.num + rs.den)

\* lines 170-176
calculate_rsi(series, w) ==
    LET delta == Diff(series)
        gain == RollingMean(Gains(delta), w)
        loss == RollingMean(Losses(delta), w)
    IN  [i \in 1..Len(series) |-> RsiOf(FloatDiv(gain[i], loss[i]))]

InitRsi ==
    /\ pc = "call"
    /\ closes \in SeqsUpTo(1..MaxPrice, MaxLen)
    /\ window \in 1..MaxWindow
    /\ rsi = <<>>
    /\ IdleWl /\ IdleSt /\ IdleFm /\ IdleKp /\ IdleFf /\ IdleCb

CalculateRsi ==
    /\ pc = "call"
    /\ rsi' = calculate_rsi(closes, window)
    /\ pc' = "done"
    /\ UNCHANGED <<closes, window, wlVars, stVars, fmVars, kpVars, ffVars, cbVars>>

NextRsi == CalculateRsi

SpecRsi == InitRsi /\ [][NextRsi]_vars

\* C9: the result is as long as the input and is undefined at every position
\* with (0-based) index < window - 1; so it is undefined everywhere when the
\* input is empty, has one element and window > 1, or is shorter than the window.
C9_LeadingPositionsUndefined ==
    pc = "done" =>
        /\ Len(rsi) = Len(closes)
        /\ \A i \in 1..Len(rsi) : (i - 1 < window - 1) => rsi[i] = NaN
        /\ Len(closes) < window => \A i \in 1..Len(rsi) : rsi[i] = NaN

\* a series shorter than the window, with rising prices
C9_Witness ==
    /\ pc = "done"
    /\ Len(closes) = 2 /\ window = 3 /\ closes[1] < closes[2]
    /\ rsi = <<NaN, NaN>>

\* the losses of the trailing window ending at position i (1-based) are all 0
NoLossInWindow(i) ==
    \A j \in (i - window + 1)..i : j >= 2 => closes[j] >= closes[j - 1]

\* C10: at every position whose trailing window is complete and holds no
\* loss, a window of unchanged prices included, the result is the defined
\* value 100.
C10_ZeroLossSaturates ==
    pc = "done" =>
        \A i \in 1..Len(rsi) :
            (i >= window /\ NoLossInWindow(i)) =>
                /\ rsi[i] # NaN
                /\ rsi[i].num = 100 * rsi[i].den

(***************************************************************************)
(* fetch_financials as a whole, generate_financial_table, update_output    *)
(***************************************************************************)
Periods == {"Annual", "Quarterly"}
Statements == {"Profit & Loss", "Balance Sheet", "Cash Flow"}
StatementKeys == Periods \X Statements

\* What the data source may deliver for one statement: nothing (None), an
\* empty frame, line items without any period, periods without any line
\* item, and a statement with two line items and three periods.
RawChoices ==
    {None,
     RawFrame(0, 0, <<>>),
     RawFrame(0, 2, <<>>),
     RawFrame(1, 0, <<<<>>>>),
     RawFrame(2, 3, <<<<Num(150 * Unit), Num(100 * Unit), None>>,
                      <<Num(-100 * Unit), Num(50 * Unit), Num(0)>>>>)}

\* stock.info: None, a map with every KPI key, a map whose beta is a string
InfoChoices ==
    {None,
     InfoMap(KpiKeySet, Unit \div 4, (17 * Unit) \div 10),
     [InfoMap(KpiKeySet, Unit \div 4, (17 * Unit) \div 10)
        EXCEPT !["beta"] = Str("Infinity")]}

\* line 102: return None, {"error": str(e)}, None
ErrorResult(reason) ==
    [financials |-> None, stock_info |-> [error |-> Str(reason)], kpi_df |-> None]

fetch_financials_Partial(s) ==
    IF s.fault THEN ErrorResult("No data found")
    ELSE LET financials == [k \in StatementKeys |-> ProcessStatement(s.statements[k])]
             stock_info == InfoOrEmpty(s.info)
             kpis == ExtractKpis(stock_info)
         IN  IF kpis = Raised
             THEN [financials |-> financials,
                   stock_info |-> [error |-> Str("Unknown format code")],
                   kpi_df |-> None]
             ELSE [financials |-> financials, stock_info |-> stock_info,
                   kpi_df |-> kpis]

\* lines 12-102 for a data source s; s.fault says that reading the ticker's
\* properties raises
fetch_financials(s) ==
    IF s.fault THEN ErrorResult("No data found")
    ELSE LET financials == [k \in StatementKeys |-> ProcessStatement(s.statements[k])]
             stock_info == InfoOrEmpty(s.info)
             kpis == ExtractKpis(stock_info)
         IN  IF kpis = Raised THEN ErrorResult("Unknown format code")
             ELSE [financials |-> financials, stock_info |-> stock_info,
                   kpi_df |-> kpis]

NoData == [t |-> "div", text |-> "No data available for this section."]

IsEmpty_NoColumns(f) == Len(f.columns) = 0

\* df.empty: some axis of the frame has length 0
IsEmpty(f) == Len(f.columns) = 0 \/ Len(f.rows) = 0

\* lines 105-115
generate_financial_table(f) ==
    IF IsEmpty(f) THEN NoData ELSE [t |-> "table", frame |-> f]

\* lines 117-126
generate_tabs(financials, period, kpis) ==
    [t |-> "tabs",
     period |-> period,
     kpi |-> generate_financial_table(kpis),
     statements |-> [st \in Statements |->
                        generate_financial_table(financials[<<period, st>>])]]

InitResearch ==
    /\ pc = "call"
    /\ stock \in [statements : [StatementKeys -> RawChoices],
                  info : InfoChoices,
                  fault : BOOLEAN]
    /\ result = None
    /\ tables = None
    /\ IdleWl /\ IdleSt /\ IdleFm /\ IdleKp /\ IdleRs /\ IdleCb

\* update_output line 221: financials, stock_info, kpi_df = fetch_financials(...)
FetchFinancials ==
    /\ pc = "call"
    /\ result' = fetch_financials(stock)
    /\ pc' = "fetched"
    /\ UNCHANGED <<stock, tables, wlVars, stVars, fmVars, kpVars, rsVars, cbVars>>

\* update_output lines 223-234: the error message, or the tabs of the
\* selected period
UpdateOutput ==
    /\ pc = "fetched"
    /\ \E period \in Periods :
         tables' =
            IF DOMAIN result.stock_info # {} /\ "error" \in DOMAIN result.stock_info
            THEN [t |-> "div", text |-> "Error fetching data", error |-> result.stock_info.error]
            ELSE generate_tabs(result.financials, period, result.kpi_df)
    /\ pc' = "done"
    /\ UNCHANGED <<stock, result, wlVars, stVars, fmVars, kpVars, rsVars, cbVars>>

NextResearch == FetchFinancials \/ UpdateOutput

SpecResearch == InitResearch /\ [][NextResearch]_vars

\* a raw statement that is absent, or present without any line item
AbsentOrEmpty(r) == r = None \/ Len(r.rows) = 0

DefaultWindow == 14
MaxSamples == 15
FirstClose == 10 * DefaultWindow

RECURSIVE SeriesFrom(_, _)
\* the closes that start at `first` and then change by incs[1], incs[2], ...
SeriesFrom(first, incs) ==
    IF Len(incs) = 0 THEN <<first>>
    ELSE LET front == SeriesFrom(first, SubSeq(incs, 1, Len(incs) - 1))
         IN  Append(front, front[Len(front)] + incs[Len(incs)])

StrictlyIncreasing(series) ==
    \A i \in 2..Len(series) : series[i] > series[i - 1]

\* Histories of up to MaxSamples closes: every series that rises by 1 or 2
\* per sample, and the series that rise by 1 except for one flat or falling
\* step.
InitRsiDefault ==
    /\ pc = "call"
    /\ window = DefaultWindow
    /\ \/ closes = <<>>
       \/ \E n \in 1..MaxSamples : \E incs \in [1..(n - 1) -> {1, 2}] :
            closes = SeriesFrom(FirstClose, incs)
       \/ \E n \in 2..MaxSamples : \E d \in 1..(n - 1) : \E step \in {-1, 0} :
            closes = SeriesFrom(FirstClose,
                        [j \in 1..(n - 1) |-> IF j = d THEN step ELSE 1])
    /\ rsi = <<>>
    /\ IdleWl /\ IdleSt /\ IdleFm /\ IdleKp /\ IdleFf /\ IdleCb

SpecRsiDefault == InitRsiDefault /\ [][NextRsi]_vars

\* C11: on a strictly increasing series with at least `window` samples
\* (window = 14) the result is exactly 100 at every position with
\* (0-based) index >= window - 1.
C11_RisingSeriesSaturates ==
    (pc = "done" /\ window = 14 /\ StrictlyIncreasing(closes) /\ Len(closes) >= window) =>
        \A i \in 1..Len(rsi) :
            (i - 1 >= window - 1) => (rsi[i] # NaN /\ rsi[i].num = 100 * rsi[i].den)

\* a rising series one sample longer than the window: 100 at both defined
\* positions, undefined before them
C11_Witness ==
    /\ pc = "done" /\ window = 14 /\ Len(closes) = 15
    /\ StrictlyIncreasing(closes) /\ closes[15] - closes[14] = 2
    /\ rsi[13] = NaN
    /\ rsi[14] = Fin(100, 1) /\ rsi[15] = Fin(100, 1)


(***************************************************************************)
(* The card view's price change (watchlist_cardview_v1.py lines 22-35)     *)
(***************************************************************************)
\* C12: in the card view the price change of a fetched ticker is
\* currentPrice - previousClose whenever both values are present (a value
\* of 0 included), and "N/A" when either is absent; zero never stands in for
\* an absent value.
C12_PriceChangeFromPresentValues ==
    (variant = "cardview") =>
        \A i \in 1..Len(data) :
            (attempts[i].outcome = "ok") =>
                LET cur  == attempts[i].info.currentPrice
                    prev == attempts[i].info.previousClose
                IN  IF cur # None /\ prev # None
                    THEN data[i].PriceChange = Num(cur.n - prev.n)
                    ELSE data[i].PriceChange = Str("N/A")

\* one ticker whose current price is 0 (a real change of minus the previous
\* close) and one whose current price is absent
C12_Witness ==
    /\ pc = "done" /\ variant = "cardview" /\ Len(data) = 2
    /\ attempts[1].outcome = "ok" /\ attempts[2].outcome = "ok"
    /\ attempts[1].info = [currentPrice |-> Num(0), previousClose |-> Num(5 * Unit)]
    /\ data[1].PriceChange = Num(-5 * Unit)
    /\ attempts[2].info = [currentPrice |-> None, previousClose |-> Num(5 * Unit)]
    /\ data[2].PriceChange = Str("N/A")


(***************************************************************************)
(* Row order of a processed statement (Stock_Research_Analysis.py line 73) *)
(***************************************************************************)
\* the raw cell as the processed frame shows it: missing cells are 0, and
\* the number is rendered by format_number
ShownCell(cell) == format_number(IF cell = None THEN Num(0) ELSE cell)

\* C13: the processed statement has the rows of the raw statement, each
\* exactly once, in exactly the reverse order: the last raw line item comes
\* first.
C13_RowsReversed ==
    (pc = "done" /\ raw # None) =>
        LET m == Len(raw.rows)
        IN  /\ Len(display.rows) = m
            /\ \A j \in 1..m :
                 /\ display.rows[j][1] = Str(raw.index[m + 1 - j])
                 /\ \A k \in 1..NumPeriods(raw) :
                      display.rows[j][k + 1] = ShownCell(raw.rows[m + 1 - j][k])

\* two line items with different cells: the second raw item is shown first
C13_Witness ==
    /\ pc = "done" /\ raw # None
    /\ Len(raw.rows) = 2 /\ NumPeriods(raw) = 2
    /\ raw.rows[1] = <<Num(150 * Unit), Num(100 * Unit)>>
    /\ raw.rows[2] = <<Num(50 * Unit), None>>
    /\ display.rows[1][1] = Str("Net Income")
    /\ display.rows[2][1] = Str("Total Revenue")
    /\ display.rows[1][2] # display.rows[2][2]


(***************************************************************************)
(* KPI extraction on maps with absent or non-numeric values                *)
(***************************************************************************)
\* C15: one metric never fails the whole KPI row: whenever the data source
\* itself did not fail, the ten-entry row is produced, each absent metric
\* is "N/A", and no entry is lost to another metric's value.
C15_KpiRowDespiteBadMetric ==
    (pc \in {"fetched", "done"} /\ ~stock.fault) =>
        /\ result.kpi_df # None
        /\ Len(result.kpi_df.rows) = Len(KpiKeys)
        /\ \A i \in 1..Len(KpiKeys) :
             LET v == Get(InfoOrEmpty(stock.info), KpiKeys[i])
             IN  /\ result.kpi_df.rows[i][1] = Str(KpiMetrics[i])
                 /\ v = None => result.kpi_df.rows[i][2] = Str(NA)
                 /\ IsNum(v) => result.kpi_df.rows[i][2] = KpiValue(KpiKeys[i], v)


(***************************************************************************)
(* update_table_and_dropdown (proto.py lines 184-225, stock_rader.py lines *)
(* 159-196)                                                                *)
(***************************************************************************)
HistoryLen == DefaultWindow + 1

\* history['Close'] as the data source may deliver it: no sample at all,
\* fewer samples than the window, and one window of changes that all rise,
\* all fall, do not move, or rise 11 times and fall 3 times
NoHistory == <<>>
ShortHistory == SeriesFrom(FirstClose, <<1, 1>>)
RisingHistory == SeriesFrom(FirstClose, [j \in 1..(HistoryLen - 1) |-> 1])
FallingHistory == SeriesFrom(FirstClose, [j \in 1..(HistoryLen - 1) |-> -1])
FlatHistory == SeriesFrom(FirstClose, [j \in 1..(HistoryLen - 1) |-> 0])
MixedHistory ==
    SeriesFrom(FirstClose,
               [j \in 1..(HistoryLen - 1) |-> IF j \in {3, 8, 12} THEN -1 ELSE 1])
Histories == {NoHistory, ShortHistory, RisingHistory, FallingHistory,
              FlatHistory, MixedHistory}

\* a float that round(x, 2) returned, in hundredths
Dec2(h) == [t |-> "dec2", h |-> h]

\* round(x, 2) of a float: NaN stays NaN
Round2(x) == IF x = NaN THEN NaN ELSE Dec2(RoundHalfEven(100 * x.num, x.den))

\* proto.py line 201:
\* calculate_rsi(history['Close']).iloc[-1] if not history.empty else None
LatestRsi(history) ==
    IF Len(history) = 0 THEN None
    ELSE calculate_rsi(history, DefaultWindow)[Len(history)]

\* `if rsi`: None and 0.0 are falsy, every other float is truthy, NaN included
Truthy(x) == x # None /\ (x = NaN \/ x.num # 0)

\* proto.py line 213: round(rsi, 2) if rsi else "N/A"
RsiField(history) ==
    LET x == LatestRsi(history)
    IN  IF Truthy(x) THEN Round2(x) ELSE Str("N/A")

\* The row appended by one iteration.  The ticker and, in proto.py, the RSI
\* are carried; the other fields are info.get(key, default) copies and
\* formats of them.
TableRow(v, ticker, history) ==
    IF v = "proto" THEN [Ticker |-> ticker, RSI |-> RsiField(history)]
    ELSE [Ticker |-> ticker]

\* after line 188 (proto.py) / 163 (stock_rader.py): the list of tickers
InitTable ==
    /\ pc = "loop"
    /\ variant \in {"proto", "stock_rader"}
    /\ tickers \in SeqsUpTo(Tickers, MaxTickers)
    /\ pos = 0
    /\ data = <<>>
    /\ attempts = <<>>
    /\ options = <<>>
    /\ ticker_input = <<>> /\ children = <<>>
    /\ IdleSt /\ IdleFm /\ IdleKp /\ IdleFf /\ IdleRs

\* One iteration of the for-loop that completes: a row and a dropdown
\* option are appended.
TableFetchOk ==
    /\ pc = "loop" /\ pos < Len(tickers)
    /\ \E history \in Histories :
         /\ data' = Append(data, TableRow(variant, tickers[pos + 1], history))
         /\ attempts' = Append(attempts,
                [ticker |-> tickers[pos + 1], outcome |-> "ok", reason |-> "",
                 history |-> history])
    /\ options' = Append(options, [label |-> tickers[pos + 1], value |-> tickers[pos + 1]])
    /\ pos' = pos + 1
    /\ UNCHANGED <<pc, variant, tickers, ticker_input, children,
                   stVars, fmVars, kpVars, ffVars, rsVars>>

\* One iteration in which stock.info, stock.history or a format raises.
\* The loop body has no try: the exception leaves the callback, which
\* returns nothing.
TableFetchRaises ==
    /\ pc = "loop" /\ pos < Len(tickers)
    /\ \E reason \in Reasons :
         attempts' = Append(attempts,
                [ticker |-> tickers[pos + 1], outcome |-> "raise", reason |-> reason])
    /\ pc' = "raised"
    /\ UNCHANGED <<variant, tickers, pos, data, cbVars,
                   stVars, fmVars, kpVars, ffVars, rsVars>>

\* The loop is exhausted: return data, columns, options.
TableReturn ==
    /\ pc = "loop" /\ pos = Len(tickers)
    /\ pc' = "done"
    /\ UNCHANGED <<wlVars, cbVars, stVars, fmVars, kpVars, ffVars, rsVars>>

NextTable == TableFetchOk \/ TableFetchRaises \/ TableReturn

SpecTable == InitTable /\ [][NextTable]_vars

\* C16: a failure for one ticker does not end update_table_and_dropdown:
\* the callback never ends by raising, and when it returns there is one row
\* per input ticker, in input order, the failed tickers included.
C16_TableFailureIsolated ==
    /\ pc # "raised"
    /\ pc = "done" =>
         /\ Len(data) = Len(tickers)
         /\ \A i \in 1..Len(tickers) : data[i].Ticker = tickers[i]
         /\ \A i \in 1..Len(attempts) :
              attempts[i].outcome = "raise" => data[i].Ticker = attempts[i].ticker

\* C17: in proto.py the RSI field of a row is the latest calculate_rsi
\* value rounded to 2 decimals whenever the history is non-empty and that
\* value is defined (0 included), and "N/A" when the history is empty or the
\* latest value is undefined.
C17_RsiFieldLatestOrNA ==
    (variant = "proto") =>
        \A i \in 1..Len(data) :
            LET x == LatestRsi(attempts[i].history)
            IN  IF x # None /\ x # NaN
                THEN data[i].RSI = Round2(x)
                ELSE data[i].RSI = Str("N/A")


(***************************************************************************)
(* update_cards (watchlist_cardview_v1.py lines 161-170) with              *)
(* get_stock_data and create_stock_cards                                   *)
(***************************************************************************)
Volume == Num(1500 * Unit)
MarketCap == Num(2000000 * Unit)

\* stock.info of a ticker whose prices are present; volume and marketCap
\* are present or missing
CardInfos ==
    {[currentPrice |-> Num(5 * Unit), previousClose |-> Num(5 * Unit)],
     [currentPrice |-> Num(5 * Unit), previousClose |-> Num(5 * Unit),
      volume |-> Volume],
     [currentPrice |-> Num(5 * Unit), previousClose |-> Num(5 * Unit),
      marketCap |-> MarketCap],
     [currentPrice |-> Num(5 * Unit), previousClose |-> Num(5 * Unit),
      volume |-> Volume, marketCap |-> MarketCap]}

\* what the data source does for one ticker: it delivers an info map, or
\* raises
CardOutcomes ==
    {[outcome |-> "ok", reason |-> "", info |-> info] : info \in CardInfos}
        \cup {[outcome |-> "raise", reason |-> r] : r \in Reasons}

\* get_stock_data, lines 11-51, given what the data source does for each
\* ticker
get_stock_data(tks, outs) ==
    [i \in 1..Len(tks) |->
        IF outs[i].outcome = "ok"
        THEN NormalRow("cardview", tks[i], outs[i].info)
        ELSE ErrorRow("cardview", tks[i], outs[i].reason)]

\* f"{x:,}" of lines 116 and 120: a whole number is grouped by thousands; a
\* string has no "," format and raises ValueError
CommaFormat(x) == IF IsNum(x) THEN Str(Grouped(x.n \div Unit)) ELSE Raised

\* lines 58-60: the red line of an error row
ErrorLine(row) == [t |-> "div", Ticker |-> row.Ticker, Error |-> row.Error]

\* lines 62-128: the card of a normal row, or Raised when building it raises
Card(row) ==
    IF CommaFormat(row.VolumeTraded) = Raised \/ CommaFormat(row.MarketCap) = Raised
    THEN Raised
    ELSE [t |-> "card", Ticker |-> row.Ticker,
          Volume |-> CommaFormat(row.VolumeTraded),
          MktCap |-> CommaFormat(row.MarketCap)]

\* some normal row's card raises: the loop of lines 57-128 does not finish
CardsRaise(rows) ==
    \E i \in 1..Len(rows) :
        ~IsErrorRow("cardview", rows[i]) /\ Card(rows[i]) = Raised

\* create_stock_cards, lines 54-129, when no card raises
create_stock_cards(rows) ==
    [i \in 1..Len(rows) |->
        IF IsErrorRow("cardview", rows[i]) THEN ErrorLine(rows[i])
        ELSE Card(rows[i])]

\* line 170: the single red line update_cards returns from its except
BatchError == [t |-> "div", Error |-> Str("Cannot specify ',' with 's'.")]

\* after line 166: the parsed tickers; no ticker stands for an empty input
InitCards ==
    /\ pc = "call"
    /\ variant = "cardview"
    /\ tickers \in SeqsUpTo(Tickers, MaxTickers)
    /\ pos = 0
    /\ data = <<>>
    /\ attempts = <<>>
    /\ IdleSt /\ IdleFm /\ IdleKp /\ IdleFf /\ IdleRs /\ IdleCb

\* line 167: data = get_stock_data(tickers)
GetStockData ==
    /\ pc = "call"
    /\ \E outs \in [1..Len(tickers) -> CardOutcomes] :
         /\ data' = get_stock_data(tickers, outs)
         /\ attempts' = [i \in 1..Len(tickers) |->
                            [ticker |-> tickers[i]] @@ outs[i]]
    /\ pos' = Len(tickers)
    /\ pc' = "data"
    /\ UNCHANGED <<variant, tickers, cbVars, stVars, fmVars, kpVars, ffVars, rsVars>>

\* lines 168-170: return create_stock_cards(data), or the single error line
\* when it raised
CreateCards ==
    /\ pc = "data"
    /\ children' = IF CardsRaise(data) THEN <<BatchError>>
                   ELSE create_stock_cards(data)
    /\ pc' = "done"
    /\ UNCHANGED <<wlVars, ticker_input, options, stVars, fmVars, kpVars, ffVars, rsVars>>

NextCards == GetStockData \/ CreateCards

SpecCards == InitCards /\ [][NextCards]_vars

\* C18: in the card view a field missing from a ticker's info (volume,
\* marketCap) is shown as "N/A" on that ticker's card: update_cards returns
\* one element per input ticker, in order, a card for every ticker whose
\* data was delivered and an error line only for a ticker whose fetch
\* raised.
C18_MissingFieldIsLocal ==
    pc = "done" =>
        /\ Len(children) = Len(tickers)
        /\ \A i \in 1..Len(tickers) :
             /\ "Ticker" \in DOMAIN children[i]
             /\ children[i].Ticker = tickers[i]
             /\ attempts[i].outcome = "raise" => children[i].t = "div"
             /\ attempts[i].outcome = "ok" =>
                  /\ children[i].t = "card"
                  /\ children[i].Volume =
                        IF "volume" \in DOMAIN attempts[i].info
                        THEN CommaFormat(attempts[i].info.volume) ELSE Str("N/A")
                  /\ children[i].MktCap =
                        IF "marketCap" \in DOMAIN attempts[i].info
                        THEN CommaFormat(attempts[i].info.marketCap) ELSE Str("N/A")


(***************************************************************************)
(* The cells of a change column (Stock_Research_Analysis.py lines 65-71)   *)
(***************************************************************************)
\* C19: every cell of a change column is shown with an explicit sign, as
\* "+N %" or "-N %" for the whole percentage N, and coloured by its value:
\* green above 0, red below 0, white at 0.  Every cell that reaches the
\* formatting is a number.
C19_SignedColouredChange ==
    (pc = "done" /\ raw # None) =>
        LET m == Len(df.rows)
        IN  \A j \in 1..m : \A c \in PctColumns(display) :
                LET cell == display.rows[j][c]
                    x == df.rows[m + 1 - j][c]
                    n == Len(cell.text)
                IN  /\ IsNum(x)
                    /\ cell.t = "span"
                    /\ n >= 4
                    /\ cell.text[1] \in {"+", "-"}
                    /\ cell.text[n - 1] = " " /\ cell.text[n] = "%"
                    /\ ParseGrouped(SubSeq(cell.text, 2, n - 2)) * Unit = Abs(x.n)
                    /\ x.n > 0 => (cell.text[1] = "+" /\ cell.color = "green")
                    /\ x.n < 0 => (cell.text[1] = "-" /\ cell.color = "red")
                    /\ x.n = 0 => cell.color = "white"

\* a rise of 50 % shown first in green and a fall of 50 % shown in red
C19_Witness ==
    /\ pc = "done" /\ raw # None /\ Len(raw.rows) = 2 /\ NumPeriods(raw) = 3
    /\ \E c \in PctColumns(display) :
         /\ display.rows[1][c] =
              [t |-> "span", text |-> <<"+", "5", "0", " ", "%">>, color |-> "green"]
         /\ display.rows[2][c] =
              [t |-> "span", text |-> <<"-", "5", "0", " ", "%">>, color |-> "red"]


(***************************************************************************)
(* Parsing the ticker entry in the four watchlist callbacks                *)
(***************************************************************************)
MaxInput == 5
\* the characters of an entry: a lower-case letter, an upper-case letter,
\* a blank and the separator
Alphabet == {"a", "B", " ", ","}
Entries == SeqsUpTo(Alphabet, MaxInput)

LowerChars == <<"a", "b">>
UpperChars == <<"A", "B">>
\* str.upper() on one character
UpperChar(ch) ==
    IF \E k \in 1..Len(LowerChars) : LowerChars[k] = ch
    THEN UpperChars[CHOOSE k \in 1..Len(LowerChars) : LowerChars[k] = ch]
    ELSE ch
Upper(s) == [i \in 1..Len(s) |-> UpperChar(s[i])]

RECURSIVE Split(_)
\* s.split(","): the pieces between the commas, empty pieces included
Split(s) ==
    IF \A p \in 1..Len(s) : s[p] # "," THEN <<s>>
    ELSE LET p == CHOOSE q \in 1..Len(s) :
                      s[q] = "," /\ \A r \in 1..(q - 1) : s[r] # ","
         IN  <<SubSeq(s, 1, p - 1)>> \o Split(SubSeq(s, p + 1, Len(s)))

RECURSIVE LStrip(_)
LStrip(s) == IF Len(s) > 0 /\ Head(s) = " " THEN LStrip(Tail(s)) ELSE s
RECURSIVE RStrip(_)
RStrip(s) ==
    IF Len(s) > 0 /\ s[Len(s)] = " " THEN RStrip(SubSeq(s, 1, Len(s) - 1)) ELSE s
\* str.strip()
Strip(s) == RStrip(LStrip(s))

\* watchlist_cardview_v1.py line 166 and watchlist_v1.py line 107:
\*   [ticker.strip().upper() for ticker in ticker_input.split(",")]
\* proto.py line 188 and stock_rader.py line 163:
\*   [t.strip() for t in tickers.split(",")]
ParseEntry(v, entry) ==
    LET pieces == Split(entry)
    IN  [i \in 1..Len(pieces) |->
            IF v \in {"cardview", "table"} THEN Upper(Strip(pieces[i]))
            ELSE Strip(pieces[i])]

InitParse ==
    /\ pc = "call"
    /\ variant \in {"cardview", "table", "proto", "stock_rader"}
    /\ ticker_input \in Entries
    /\ tickers = <<>> /\ pos = 0 /\ data = <<>> /\ attempts = <<>>
    /\ options = <<>> /\ children = <<>>
    /\ IdleSt /\ IdleFm /\ IdleKp /\ IdleFf /\ IdleRs

\* `if not ticker_input: return []` (`if not tickers: return [], [], []`)
ReturnNothing ==
    /\ pc = "call" /\ ticker_input = <<>>
    /\ pc' = "done"
    /\ UNCHANGED <<wlVars, cbVars, stVars, fmVars, kpVars, ffVars, rsVars>>

\* the list comprehension that parses the entry
ParseTickers ==
    /\ pc = "call" /\ ticker_input # <<>>
    /\ tickers' = ParseEntry(variant, ticker_input)
    /\ pc' = "loop"
    /\ UNCHANGED <<variant, pos, data, attempts, cbVars,
                   stVars, fmVars, kpVars, ffVars, rsVars>>

\* stock = yf.Ticker(ticker): the next ticker is handed to the data source
HandToSource ==
    /\ pc = "loop" /\ pos < Len(tickers)
    /\ attempts' = Append(attempts, [ticker |-> tickers[pos + 1]])
    /\ pos' = pos + 1
    /\ UNCHANGED <<pc, variant, tickers, data, cbVars,
                   stVars, fmVars, kpVars, ffVars, rsVars>>

AllHanded ==
    /\ pc = "loop" /\ pos = Len(tickers)
    /\ pc' = "done"
    /\ UNCHANGED <<wlVars, cbVars, stVars, fmVars, kpVars, ffVars, rsVars>>

NextParse == ReturnNothing \/ ParseTickers \/ HandToSource \/ AllHanded

SpecParse == InitParse /\ [][NextParse]_vars

\* the positions of the separators in an entry, and the i-th token as the
\* stretch between two neighbouring separators
CommaPositions(s) == {p \in 1..Len(s) : s[p] = ","}
TokenStart(s, i) ==
    IF i = 1 THEN 1
    ELSE 1 + CHOOSE p \in CommaPositions(s) :
                 Cardinality({q \in CommaPositions(s) : q < p}) = i - 2
TokenEnd(s, i) ==
    IF i = Cardinality(CommaPositions(s)) + 1 THEN Len(s)
    ELSE (CHOOSE p \in CommaPositions(s) :
              Cardinality({q \in CommaPositions(s) : q < p}) = i - 1) - 1
\* the token without the blanks around it, in upper case
TrimmedUpper(s, i) ==
    LET inner == {p \in TokenStart(s, i)..TokenEnd(s, i) : s[p] # " "}
    IN  IF inner = {} THEN <<>>
        ELSE LET lo == CHOOSE p \in inner : \A q \in inner : p <= q
                 hi == CHOOSE p \in inner : \A q \in inner : p >= q
             IN  [k \in 1..(hi - lo + 1) |-> UpperChar(s[lo + k - 1])]

\* C20: in every watchlist callback the i-th ticker handed to the data
\* source is the i-th comma-separated token of the entry, without the
\* whitespace around it and in upper case.
C20_TickersTrimmedUpper ==
    \A i \in 1..Len(attempts) :
        attempts[i].ticker = TrimmedUpper(ticker_input, i)


(***************************************************************************)
(* get_stock_data step by step: the blocking fetch of each ticker          *)
(* (watchlist_cardview_v1.py lines 11-51, watchlist_v1.py lines 10-40)     *)
(***************************************************************************)
\* stock.info as delivered for a ticker whose fetch completes
DeliveredInfo == [currentPrice |-> Num(5 * Unit), previousClose |-> Num(5 * Unit)]

InitSequential ==
    /\ pc = "loop"
    /\ variant \in {"cardview", "table"}
    /\ tickers \in SeqsUpTo(Tickers, MaxTickers)
    /\ pos = 0
    /\ data = <<>>
    /\ attempts = <<>>
    /\ IdleSt /\ IdleFm /\ IdleKp /\ IdleFf /\ IdleRs /\ IdleCb

\* the for-loop takes the next ticker and the try body calls the data
\* source: the call blocks until it returns or raises
StartFetch ==
    /\ pc = "loop" /\ pos < Len(tickers)
    /\ attempts' = Append(attempts,
            [ticker |-> tickers[pos + 1], outcome |-> "started", reason |-> ""])
    /\ pc' = "fetch"
    /\ UNCHANGED <<variant, tickers, pos, data, cbVars,
                   stVars, fmVars, kpVars, ffVars, rsVars>>

FetchFails_Retry ==
    /\ pc = "fetch"
    /\ \E reason \in Reasons :
         attempts' = [attempts EXCEPT ![Len(attempts)] =
                         [@ EXCEPT !.outcome = "raise", !.reason = reason]]
    /\ pc' = "loop"
    /\ UNCHANGED <<variant, tickers, pos, data, cbVars,
                   stVars, fmVars, kpVars, ffVars, rsVars>>

\* the call returned: the row of the try branch is appended
FetchCompletes ==
    /\ pc = "fetch"
    /\ data' = Append(data, NormalRow(variant, tickers[pos + 1], DeliveredInfo))
    /\ attempts' = [attempts EXCEPT ![Len(attempts)] = [@ EXCEPT !.outcome = "ok"]]
    /\ pos' = pos + 1
    /\ pc' = "loop"
    /\ UNCHANGED <<variant, tickers, cbVars, stVars, fmVars, kpVars, ffVars, rsVars>>

\* the call raised: the row of the except branch is appended
FetchFails ==
    /\ pc = "fetch"
    /\ \E reason \in Reasons :
         /\ data' = Append(data, ErrorRow(variant, tickers[pos + 1], reason))
         /\ attempts' = [attempts EXCEPT ![Len(attempts)] =
                            [@ EXCEPT !.outcome = "raise", !.reason = reason]]
    /\ pos' = pos + 1
    /\ pc' = "loop"
    /\ UNCHANGED <<variant, tickers, cbVars, stVars, fmVars, kpVars, ffVars, rsVars>>

\* the loop is exhausted: return data
ReturnRows ==
    /\ pc = "loop" /\ pos = Len(tickers)
    /\ pc' = "done"
    /\ UNCHANGED <<wlVars, cbVars, stVars, fmVars, kpVars, ffVars, rsVars>>

NextSequential == StartFetch \/ FetchCompletes \/ FetchFails \/ ReturnRows

\* The function is straight-line Python on one thread: it keeps running, and
\* every call to the data source returns or raises.
SpecSequential ==
    InitSequential /\ [][NextSequential]_vars /\ WF_vars(NextSequential)

\* the attempts so far are the first tickers of the input, in order, one
\* attempt per position; only the last one can still be running, and every
\* finished attempt has its row
InOrderOnce ==
    /\ Len(data) = pos
    /\ Len(attempts) = (IF pc = "fetch" THEN pos + 1 ELSE pos)
    /\ Len(attempts) <= Len(tickers)
    /\ \A i \in 1..Len(attempts) :
         /\ attempts[i].ticker = tickers[i]
         /\ attempts[i].outcome = "started" => (i = Len(attempts) /\ pc = "fetch")
    /\ \A i \in 1..Len(data) :
         /\ data[i].Ticker = tickers[i]
         /\ attempts[i].outcome = "raise" <=> IsErrorRow(variant, data[i])

\* a fetch starts only when every earlier attempt has completed or failed
\* and its row is in the list
StartsAfterRow ==
    (Len(attempts') > Len(attempts)) =>
        /\ Len(attempts') = Len(attempts) + 1
        /\ Len(data) = Len(attempts)
        /\ \A i \in 1..Len(attempts) : attempts[i].outcome \in {"ok", "raise"}

\* C21: within one invocation of get_stock_data the tickers are attempted
\* strictly in input order, each exactly once; the fetch of the next ticker
\* starts only after the previous fetch has completed or failed and its row
\* has been appended; and the invocation terminates after len(tickers)
\* attempts.
C21_SequentialAttempts ==
    /\ []InOrderOnce
    /\ [][StartsAfterRow]_vars
    /\ <>(pc = "done" /\ Len(attempts) = Len(tickers) /\ Len(data) = Len(tickers))

\* three tickers, the second of which failed, all attempted and returned
C21_Witness ==
    /\ pc = "done" /\ Len(tickers) = 3
    /\ tickers[1] # tickers[2] /\ tickers[2] # tickers[3]
    /\ attempts[1].outcome = "ok" /\ attempts[2].outcome = "raise"
    /\ attempts[3].outcome = "ok"
    /\ IsErrorRow(variant, data[2]) /\ IsNormalRow(variant, data[3])


(***************************************************************************)
(* Two overlapping invocations of a watchlist callback                     *)
(* (update_cards / update_table, each calling get_stock_data)              *)
(***************************************************************************)
\* One invocation triggered by the Search button and one by the refresh
\* timer, served by two threads of the same application.  In this
\* specification pc, tickers, pos, data and attempts hold one value per
\* invocation: they are the locals of each call.
Invocations == {"button", "timer"}
MaxOverlap == 2
OverlapTickers == {"AAA", "BAD"}

InitOverlap ==
    /\ pc = [inv \in Invocations |-> "loop"]
    /\ variant \in {"cardview", "table"}
    /\ tickers \in [Invocations -> SeqsUpTo(OverlapTickers, MaxOverlap)]
    /\ pos = [inv \in Invocations |-> 0]
    /\ data = [inv \in Invocations |-> <<>>]
    /\ attempts = [inv \in Invocations |-> <<>>]
    /\ IdleSt /\ IdleFm /\ IdleKp /\ IdleFf /\ IdleRs /\ IdleCb

OverlapFetchOk_Shared(inv) ==
    /\ pc[inv] = "loop" /\ pos[inv] < Len(tickers[inv])
    /\ data' = [other \in Invocations |->
                  Append(data[other],
                         NormalRow(variant, tickers[inv][pos[inv] + 1], DeliveredInfo))]
    /\ attempts' = [attempts EXCEPT ![inv] = Append(@,
            [ticker |-> tickers[inv][pos[inv] + 1], outcome |-> "ok", reason |-> "",
             info |-> DeliveredInfo])]
    /\ pos' = [pos EXCEPT ![inv] = @ + 1]
    /\ UNCHANGED <<pc, variant, tickers, cbVars, stVars, fmVars, kpVars, ffVars, rsVars>>

\* one iteration of invocation inv whose try body completes: the row goes
\* to the list `data` of that call
OverlapFetchOk(inv) ==
    /\ pc[inv] = "loop" /\ pos[inv] < Len(tickers[inv])
    /\ data' = [data EXCEPT ![inv] = Append(@,
            NormalRow(variant, tickers[inv][pos[inv] + 1], DeliveredInfo))]
    /\ attempts' = [attempts EXCEPT ![inv] = Append(@,
            [ticker |-> tickers[inv][pos[inv] + 1], outcome |-> "ok", reason |-> "",
             info |-> DeliveredInfo])]
    /\ pos' = [pos EXCEPT ![inv] = @ + 1]
    /\ UNCHANGED <<pc, variant, tickers, cbVars, stVars, fmVars, kpVars, ffVars, rsVars>>

\* one iteration of invocation inv whose try body raises
OverlapFetchRaises(inv) ==
    /\ pc[inv] = "loop" /\ pos[inv] < Len(tickers[inv])
    /\ \E reason \in Reasons :
         /\ data' = [data EXCEPT ![inv] = Append(@,
                ErrorRow(variant, tickers[inv][pos[inv] + 1], reason))]
         /\ attempts' = [attempts EXCEPT ![inv] = Append(@,
                [ticker |-> tickers[inv][pos[inv] + 1], outcome |-> "raise",
                 reason |-> reason])]
    /\ pos' = [pos EXCEPT ![inv] = @ + 1]
    /\ UNCHANGED <<pc, variant, tickers, cbVars, stVars, fmVars, kpVars, ffVars, rsVars>>

\* invocation inv returns its rows
OverlapReturn(inv) ==
    /\ pc[inv] = "loop" /\ pos[inv] = Len(tickers[inv])
    /\ pc' = [pc EXCEPT ![inv] = "done"]
    /\ UNCHANGED <<wlVars, cbVars, stVars, fmVars, kpVars, ffVars, rsVars>>

NextOverlap ==
    \E inv \in Invocations :
        OverlapFetchOk(inv) \/ OverlapFetchRaises(inv) \/ OverlapReturn(inv)

SpecOverlap == InitOverlap /\ [][NextOverlap]_vars

\* the row an invocation running alone builds for a ticker, given what the
\* data source did for it
RowAlone(v, attempt) ==
    IF attempt.outcome = "ok" THEN NormalRow(v, attempt.ticker, attempt.info)
    ELSE ErrorRow(v, attempt.ticker, attempt.reason)

\* C22: when two invocations overlap in any interleaving, each returns
\* exactly the rows it would return alone on its own tickers: one row per
\* ticker of its own input, in order, built from what the data source did
\* for that invocation, and nothing from the other invocation.
C22_OverlapKeepsRowsApart ==
    \A inv \in Invocations :
        /\ Len(data[inv]) = pos[inv]
        /\ \A i \in 1..Len(data[inv]) :
             /\ attempts[inv][i].ticker = tickers[inv][i]
             /\ data[inv][i] = RowAlone(variant, attempts[inv][i])
        /\ pc[inv] = "done" => Len(data[inv]) = Len(tickers[inv])

\* both invocations have returned, each with two rows, after fetches on
\* different tickers with different outcomes
C22_Witness ==
    /\ pc["button"] = "done" /\ pc["timer"] = "done"
    /\ tickers["button"] = <<"AAA", "AAA">> /\ tickers["timer"] = <<"BAD", "AAA">>
    /\ attempts["button"][1].outcome = "ok" /\ attempts["button"][2].outcome = "ok"
    /\ attempts["timer"][1].outcome = "raise" /\ attempts["timer"][2].outcome = "ok"
    /\ Len(data["button"]) = 2 /\ Len(data["timer"]) = 2
    /\ IsErrorRow(variant, data["timer"][1])


(***************************************************************************)
(* The range of calculate_rsi (proto.py lines 170-176)                     *)
(***************************************************************************)
\* the float num / den lies in the closed interval [lo, hi]
InInterval(x, lo, hi) ==
    /\ x.den # 0
    /\ x.den > 0 => (lo * x.den <= x.num /\ x.num <= hi * x.den)
    /\ x.den < 0 => (lo * x.den >= x.num /\ x.num >= hi * x.den)

\* C23: every defined value that calculate_rsi produces, for any series of
\* closes and any window >= 1, lies in the closed interval [0, 100].
C23_RsiWithinBounds ==
    pc = "done" =>
        \A i \in 1..Len(rsi) :
            rsi[i] # NaN => (rsi[i] # Inf /\ InInterval(rsi[i], 0, 100))

\* a fall, a rise and a second rise with window 2: the values 0, 50 and 100
C23_Witness ==
    /\ pc = "done" /\ window = 2 /\ closes = <<2, 1, 2, 3>>
    /\ rsi[1] = NaN
    /\ rsi[2].num = 0
    /\ 2 * rsi[3].num = 100 * rsi[3].den
    /\ rsi[4].num = 100 * rsi[4].den


(***************************************************************************)
(* fetch_financials as a whole and update_output                           *)
(* (Stock_Research_Analysis.py lines 12-102 and 215-234)                   *)
(***************************************************************************)
\* some step of fetch_financials raises for this data source: reading the
\* ticker's properties, or formatting a KPI value that is not a number
SomeStepRaises(s) ==
    \/ s.fault
    \/ /\ s.info # None
       /\ \E k \in DOMAIN s.info : ~IsNum(s.info[k])

\* C24: fetch_financials returns either all six processed statements with
\* the attribute map and the KPI table, or the triple
\* (None, {"error": reason}, None) when a step raises, and never a part of
\* each; in the error case update_output shows the one error message and
\* nothing of the statements.
C24_AllOrNothing ==
    /\ pc \in {"fetched", "done"} =>
         IF SomeStepRaises(stock)
         THEN /\ result.financials = None
              /\ result.kpi_df = None
              /\ DOMAIN result.stock_info = {"error"}
         ELSE /\ result.financials # None
              /\ DOMAIN result.financials = StatementKeys
              /\ \A k \in StatementKeys : result.financials[k].t = "frame"
              /\ result.stock_info = InfoOrEmpty(stock.info)
              /\ result.kpi_df # None
              /\ Len(result.kpi_df.rows) = Len(KpiKeys)
    /\ pc = "done" =>
         IF SomeStepRaises(stock)
         THEN /\ tables.t = "div"
              /\ tables.error = result.stock_info.error
              /\ "statements" \notin DOMAIN tables
         ELSE /\ tables.t = "tabs"
              /\ DOMAIN tables.statements = Statements

\* every statement was delivered with data and only the beta value cannot be
\* formatted: the whole result is the error triple and one message is shown
C24_Witness ==
    /\ pc = "done" /\ ~stock.fault
    /\ \A k \in StatementKeys :
         stock.statements[k] # None /\ Len(stock.statements[k].rows) = 2
    /\ stock.info # None /\ stock.info["beta"] = Str("Infinity")
    /\ result = ErrorResult("Unknown format code")
    /\ tables.t = "div"

====
